---- MODULE Spec2Model ----
(***************************************************************************)
(* Server-side conversation store of comfyui-prompt-generator:             *)
(*   app/database.py      ConversationStore (trim, expiry, facade)         *)
(*   app/routes/chat.py   /chat, /chat-stream, /reset                      *)
(*   app/routes/persona.py /persona-chat, /persona-chat-stream,            *)
(*                         /persona-reset                                   *)
(*                                                                         *)
(* The specifications share the variables:                                 *)
(*   TrimSpec   the pure function _trim_messages on bounded inputs, and    *)
(*              its legacy twin of prompt_generator.py                     *)
(*   StoreSpec  the facade operations called directly on one store         *)
(*   Spec       the route handlers of concurrent requests over the store   *)
(*   StreamSpec the streaming routes, generate() taken token by token      *)
(*   EstablishedSpec  the routes of a client with two full conversations   *)
(*   CorruptSpec      the same client over a row with malformed text       *)
(*   SaveSpec   save_messages in two parts, called by concurrent threads   *)
(*   SequentialSpec   the routes of a client that waits for each response  *)
(*   TurnsSpec  a run of successful /chat turns past max_messages          *)
(***************************************************************************)
EXTENDS Integers, Sequences, FiniteSets, TLC

VARIABLES
    max_messages,   \* ConversationStore.max_messages
    max_age_hours,  \* ConversationStore.max_age_hours, in clock ticks
    trim_in,        \* TrimSpec: the transcript handed to _trim_messages
    trim_out,       \* TrimSpec: [done, value, legacy], the returned transcripts
    store,          \* table conversation_store: session_id -> row or NoRow
    now,            \* the wall clock, in ticks
    issued,         \* the identifiers secrets.token_urlsafe has returned so far
    last,           \* the operation that ran last, its arguments and its return
    jar,            \* Spec: the client's signed session cookie
    req,            \* the requests (SaveSpec: calls) in flight, slot -> locals and position
    nreq            \* number of requests sent (SaveSpec: calls started)

vars == <<max_messages, max_age_hours, trim_in, trim_out, store, now, issued,
          last, jar, req, nreq>>

(***************************************************************************)
(* Bounds of the model and constants of the program.                       *)
(***************************************************************************)
MaxLen == 5
MaxPairs == 12
MaxTime == 2
ClockStart == 8
DefaultMaxMessages == 21
MaxAgeTicks == 1

None == "None"

Roles == {"system", "user", "assistant"}
Contents == {"p", "q"}

Msg(r, c) == [role |-> r, content |-> c]

Messages == [role : Roles, content : Contents]

\* every transcript of at most n messages
Transcripts(n) == UNION {[1..k -> Messages] : k \in 0..n}

\* budgets tried on arbitrary transcripts (0 and -1 are the exhausted budgets)
Budgets == (0 - 1)..(MaxLen - 1)

\* "System instructions" followed by k pairs "user i", "assistant i"
PairTranscript(k) ==
    [i \in 1..(1 + 2 * k) |->
        IF i = 1 THEN Msg("system", "System instructions")
        ELSE IF i % 2 = 0 THEN Msg("user", "user " \o ToString((i \div 2) - 1))
        ELSE Msg("assistant", "assistant " \o ToString(((i - 1) \div 2) - 1))]

PairBudgets == 1..(DefaultMaxMessages + 1)

(***************************************************************************)
(* ConversationStore._trim_messages                                        *)
(***************************************************************************)
\* mutant of LastN: the slice is taken from the front (messages[:n])
LastNFromFront(s, n) == SubSeq(s, 1, n)

\* messages[-n:]
LastN(s, n) == SubSeq(s, Len(s) - n + 1, Len(s))

\* messages[0].get('role') == 'system'
HasSystem(messages) == messages[1].role = "system"

\* mutant of SystemPart: the system message is not put back
SystemPartDropped(messages) == <<>>

\* result.append(system_msg) when there is one
SystemPart(messages) ==
    IF HasSystem(messages) THEN <<messages[1]>> ELSE <<>>

\* conv_messages = messages[1:] when a system message leads
ConvMessages(messages) ==
    IF HasSystem(messages) THEN Tail(messages) ELSE messages

\* mutant of MaxConvMessages: the system message is not counted
MaxConvMessagesUncounted(messages, N) == N

\* max_conv_messages = self.max_messages - (1 if system_msg else 0)
MaxConvMessages(messages, N) ==
    N - (IF HasSystem(messages) THEN 1 ELSE 0)

\* mutant of KeepCount: the role at the cut is not looked at
KeepCountNoPairCheck(conv, max_conv) == max_conv

\* keep_count, lowered by one when the cut would start on an assistant message
KeepCount(conv, max_conv) ==
    LET start_index == Len(conv) - max_conv
    IN  IF start_index < Len(conv) /\ conv[start_index + 1].role = "assistant"
        THEN max_conv - 1
        ELSE max_conv

\* mutant of KeepLast: the slice conv_messages[-keep_count:] without its guard
KeepLastUnguarded(conv, keep_count) ==
    IF keep_count > 0 THEN LastN(conv, keep_count)
    ELSE SubSeq(conv, 1 - keep_count, Len(conv))

\* conv_messages[-keep_count:] if keep_count > 0 else []
KeepLast(conv, keep_count) ==
    IF keep_count > 0 THEN LastN(conv, keep_count) ELSE <<>>

\* mutant of DropTrailingUser: the last message goes whatever its role
DropTrailingAny(conv) ==
    IF conv # <<>> THEN SubSeq(conv, 1, Len(conv) - 1) ELSE conv

\* mutant of DropTrailingUser: the trailing user message stays
DropTrailingUserKept(conv) == conv

\* a kept remainder that ends on a user message loses that message
DropTrailingUser(conv) ==
    IF conv # <<>> /\ conv[Len(conv)].role = "user"
    THEN SubSeq(conv, 1, Len(conv) - 1)
    ELSE conv

TrimConv(conv, max_conv) ==
    IF Len(conv) > max_conv
    THEN DropTrailingUser(KeepLast(conv, KeepCount(conv, max_conv)))
    ELSE conv

\* mutant of TrimMessages: nothing is cut
TrimMessagesSkipped(messages, N) == messages

TrimMessages(messages, N) ==
    IF messages = <<>> \/ Len(messages) <= N
    THEN messages
    ELSE SystemPart(messages)
            \o TrimConv(ConvMessages(messages), MaxConvMessages(messages, N))

(***************************************************************************)
(* ConversationStore._trim_messages of the legacy module                   *)
(* prompt_generator.py                                                     *)
(***************************************************************************)
\* keep_count; the role at the cut is looked at only if keep_count < len
LegacyKeepCount(conv, max_conv) ==
    IF max_conv < Len(conv)
    THEN LET start_index == Len(conv) - max_conv
         IN  IF start_index < Len(conv) /\ conv[start_index + 1].role = "assistant"
             THEN max_conv - 1
             ELSE max_conv
    ELSE max_conv

\* the remainder is cut from the front and returned as it is
LegacyTrimConv(conv, max_conv) ==
    IF Len(conv) > max_conv
    THEN KeepLast(conv, LegacyKeepCount(conv, max_conv))
    ELSE conv

LegacyTrimMessages(messages, N) ==
    IF messages = <<>> \/ Len(messages) <= N
    THEN messages
    ELSE SystemPart(messages)
            \o LegacyTrimConv(ConvMessages(messages), MaxConvMessages(messages, N))

(***************************************************************************)
(* TrimSpec: _trim_messages applied to one input.                          *)
(***************************************************************************)
Idle == [op |-> "none"]

TrimInit ==
    /\ \/ /\ trim_in \in Transcripts(MaxLen)
          /\ max_messages \in Budgets
       \/ /\ trim_in \in {PairTranscript(k) : k \in 0..MaxPairs}
          /\ max_messages \in PairBudgets
    /\ trim_out = [done |-> FALSE, value |-> <<>>]
    /\ max_age_hours = MaxAgeTicks
    /\ store = <<>>
    /\ now = 0
    /\ issued = {}
    /\ last = Idle
    /\ jar = <<>>
    /\ req = <<>>
    /\ nreq = 0

CallTrim ==
    /\ trim_out.done = FALSE
    /\ trim_out' = [done |-> TRUE,
                    value |-> TrimMessages(trim_in, max_messages),
                    legacy |-> LegacyTrimMessages(trim_in, max_messages)]
    /\ UNCHANGED <<max_messages, max_age_hours, trim_in, store, now, issued,
                   last, jar, req, nreq>>

TrimNext == CallTrim

TrimSpec == TrimInit /\ [][TrimNext]_vars

(***************************************************************************)
(* The table conversation_store and the facade of ConversationStore.       *)
(* A table is a function from the session ids that have a row to the row   *)
(* [model_type, conversation, updated_at]; conversation and updated_at are *)
(* TEXT columns: the JSON text of the transcript and the ISO-8601 text of  *)
(* the time of the write.                                                  *)
(***************************************************************************)
EmptyTable == <<>>

\* the rows of table whose session id is in keep
Restrict(table, keep) == [i \in (DOMAIN table) \cap keep |-> table[i]]

\* json.dumps of a list of {role, content} objects, as a sequence of tokens
RECURSIVE Dumps(_)
Dumps(msgs) ==
    IF msgs = <<>> THEN <<"[", "]">>
    ELSE LET rest == Dumps(Tail(msgs))
         IN  <<"[", "{", msgs[1].role, msgs[1].content, "}">> \o Tail(rest)

\* whether json.loads accepts the text
WellFormed(text) ==
    /\ Len(text) >= 2
    /\ text[1] = "["
    /\ text[Len(text)] = "]"
    /\ (Len(text) - 2) % 4 = 0
    /\ \A k \in 1..((Len(text) - 2) \div 4) :
           text[4 * k - 2] = "{" /\ text[4 * k + 1] = "}"

\* mutant of Loads: a lenient parser that keeps the objects it could read
LoadsLenient(text) ==
    IF Len(text) >= 5 /\ text[1] = "["
    THEN [k \in 1..((Len(text) - 1) \div 4) |->
            [role |-> text[4 * k - 1], content |-> text[4 * k]]]
    ELSE <<>>

\* json.loads; JSONDecodeError is caught by get_conversation, which takes []
Loads(text) ==
    IF WellFormed(text)
    THEN [k \in 1..((Len(text) - 2) \div 4) |->
            [role |-> text[4 * k - 1], content |-> text[4 * k]]]
    ELSE <<>>

\* datetime.isoformat(): fixed-width text, here two decimal digits of the tick
IsoFormat(t) == <<t \div 10, t % 10>>

\* the time an ISO text stands for
ParseIso(text) == 10 * text[1] + text[2]

\* SQLite's comparison of two TEXT values: left strictly before right
TextLess(a, b) ==
    \E i \in 1..Len(a) :
        /\ i <= Len(b)
        /\ a[i] < b[i]
        /\ \A j \in 1..(i - 1) : a[j] = b[j]

\* the row save_messages writes
NewRow(trimmed, model_type, t) ==
    [model_type |-> model_type,
     conversation |-> Dumps(trimmed),
     updated_at |-> IsoFormat(t)]

\* mutant of Upsert: DO UPDATE SET leaves the conversation column out
UpsertNotAllColumns(table, session_id, row) ==
    [i \in (DOMAIN table) \cup {session_id} |->
        IF i # session_id THEN table[i]
        ELSE IF i \in DOMAIN table
             THEN [row EXCEPT !.conversation = table[i].conversation]
             ELSE row]

\* mutant of Upsert: DO UPDATE SET leaves the updated_at column out
UpsertKeepsTimestamp(table, session_id, row) ==
    [i \in (DOMAIN table) \cup {session_id} |->
        IF i # session_id THEN table[i]
        ELSE IF i \in DOMAIN table
             THEN [row EXCEPT !.updated_at = table[i].updated_at]
             ELSE row]

\* mutant of Upsert: the UPDATE has no WHERE, every row gets the new time
UpsertTouchesAll(table, session_id, row) ==
    [i \in (DOMAIN table) \cup {session_id} |->
        IF i = session_id THEN row
        ELSE [table[i] EXCEPT !.updated_at = row.updated_at]]

\* INSERT ... ON CONFLICT(session_id) DO UPDATE SET ...
Upsert(table, session_id, row) ==
    [i \in (DOMAIN table) \cup {session_id} |->
        IF i = session_id THEN row ELSE table[i]]

\* mutant of Cleanup: the comparison is <= instead of <
CleanupInclusive(table, H, t) ==
    IF H = 0 THEN table
    ELSE Restrict(table,
            {i \in DOMAIN table :
                TextLess(IsoFormat(t - H), table[i].updated_at)})

\* _cleanup: DELETE FROM conversation_store WHERE updated_at < cutoff
Cleanup(table, H, t) ==
    IF H = 0 THEN table
    ELSE Restrict(table,
            {i \in DOMAIN table :
                ~TextLess(table[i].updated_at, IsoFormat(t - H))})

\* mutant of SaveMessages: the untrimmed messages are serialized
SaveMessagesUntrimmed(table, session_id, messages, model_type, N, H, t) ==
    Cleanup(Upsert(table, session_id, NewRow(messages, model_type, t)), H, t)

\* mutant of SaveMessages: _cleanup is not called
SaveMessagesNoCleanup(table, session_id, messages, model_type, N, H, t) ==
    Upsert(table, session_id, NewRow(TrimMessages(messages, N), model_type, t))

\* save_messages: the table it leaves
SaveMessages(table, session_id, messages, model_type, N, H, t) ==
    Cleanup(Upsert(table, session_id,
                   NewRow(TrimMessages(messages, N), model_type, t)),
            H, t)

\* save_messages: the value it returns
SaveReturn(messages, N) == TrimMessages(messages, N)

\* get_conversation: (messages, model_type)
GetConversation(table, session_id) ==
    IF session_id = None \/ session_id \notin DOMAIN table
    THEN [messages |-> <<>>, model_type |-> None]
    ELSE [messages |-> Loads(table[session_id].conversation),
          model_type |-> table[session_id].model_type]

\* mutant of DeleteSession: the DELETE is never committed
DeleteSessionUncommitted(table, session_id) == table

\* delete_session: the table it leaves
DeleteSession(table, session_id) ==
    IF session_id = None THEN table
    ELSE Restrict(table, (DOMAIN table) \ {session_id})

\* secrets.token_urlsafe(16): an identifier never returned before
FreshId(universe, used) == CHOOSE i \in universe \ used : TRUE

(***************************************************************************)
(* StoreSpec: the facade called directly, as the unit tests do.            *)
(***************************************************************************)
StoreIds == {"s1", "s2"}
Labels == {"flux", "sdxl"}

\* a system message followed by alternating user and assistant messages
Alternating(n) ==
    [i \in 1..n |->
        IF i = 1 THEN Msg("system", "S")
        ELSE IF i % 2 = 0 THEN Msg("user", "u" \o ToString(i))
        ELSE Msg("assistant", "a" \o ToString(i))]

StoreTranscripts == {Alternating(n) : n \in 0..MaxLen}

\* the rows an operation removed other than by overwriting: id -> time
Swept(before, after) ==
    [i \in (DOMAIN before) \ (DOMAIN after) |-> ParseIso(before[i].updated_at)]

StoreInit ==
    /\ max_messages = MaxLen - 2
    /\ max_age_hours = MaxAgeTicks
    /\ trim_in = <<>>
    /\ trim_out = [done |-> FALSE, value |-> <<>>]
    /\ store = EmptyTable
    /\ now = ClockStart
    /\ issued = {}
    /\ last = Idle
    /\ jar = <<>>
    /\ req = <<>>
    /\ nreq = 0

StoreCreateSession ==
    \E model_type \in Labels, initial_messages \in StoreTranscripts :
        /\ issued # StoreIds
        /\ LET session_id == FreshId(StoreIds, issued)
               after == SaveMessages(store, session_id, initial_messages,
                                     model_type, max_messages, max_age_hours, now)
           IN  /\ store' = after
               /\ issued' = issued \cup {session_id}
               /\ last' = [op |-> "create_session", session_id |-> session_id,
                           messages |-> initial_messages, model_type |-> model_type,
                           ret |-> session_id, swept |-> Swept(store, after)]
        /\ UNCHANGED <<max_messages, max_age_hours, trim_in, trim_out, now, jar, req, nreq>>

StoreSaveMessages ==
    \E session_id \in issued, model_type \in Labels, messages \in StoreTranscripts :
        /\ LET after == SaveMessages(store, session_id, messages, model_type,
                                     max_messages, max_age_hours, now)
           IN  /\ store' = after
               /\ last' = [op |-> "save_messages", session_id |-> session_id,
                           messages |-> messages, model_type |-> model_type,
                           ret |-> SaveReturn(messages, max_messages),
                           swept |-> Swept(store, after)]
        /\ UNCHANGED <<max_messages, max_age_hours, trim_in, trim_out, now, issued,
                       jar, req, nreq>>

StoreGetConversation ==
    \E session_id \in StoreIds \cup {None} :
        /\ last' = [op |-> "get_conversation", session_id |-> session_id,
                    ret |-> GetConversation(store, session_id)]
        /\ UNCHANGED <<max_messages, max_age_hours, trim_in, trim_out, store, now,
                       issued, jar, req, nreq>>

StoreDeleteSession ==
    \E session_id \in StoreIds \cup {None} :
        /\ store' = DeleteSession(store, session_id)
        /\ last' = [op |-> "delete_session", session_id |-> session_id,
                    again |-> last.op = "delete_session"
                                /\ last.session_id = session_id,
                    existed |-> \/ session_id \in DOMAIN store
                                \/ /\ last.op = "delete_session"
                                   /\ last.session_id = session_id
                                   /\ last.existed]
        /\ UNCHANGED <<max_messages, max_age_hours, trim_in, trim_out, now, issued,
                       jar, req, nreq>>

StoreClearAll ==
    /\ store' = EmptyTable
    /\ last' = [op |-> "clear_all"]
    /\ UNCHANGED <<max_messages, max_age_hours, trim_in, trim_out, now, issued,
                   jar, req, nreq>>

\* time passes between two calls
Tick ==
    /\ now < ClockStart + MaxTime
    /\ now' = now + 1
    /\ last' = [op |-> "tick"]
    /\ UNCHANGED <<max_messages, max_age_hours, trim_in, trim_out, store, issued,
                   jar, req, nreq>>

StoreNext ==
    \/ StoreCreateSession
    \/ StoreSaveMessages
    \/ StoreGetConversation
    \/ StoreDeleteSession
    \/ StoreClearAll
    \/ Tick

StoreSpec == StoreInit /\ [][StoreNext]_vars

(***************************************************************************)
(* Route-level session binding: /chat, /chat-stream, /persona-chat,        *)
(* /persona-chat-stream, /reset and /persona-reset of one client.  A slot  *)
(* holds one request in flight: the handler's locals and its position.     *)
(* Every store call is one transaction, so one step; what a handler does   *)
(* between two store calls touches its locals only.                        *)
(***************************************************************************)
MaxRequests == 2
MaxTokens == 1

Slots == {1, 2}

ModelTypes == {"flux", "sdxl"}
Personas == {"creative_vision_guide", "quick_sketch"}

ChatRoutes == {"chat", "chat_stream"}
PersonaRoutes == {"persona_chat", "persona_chat_stream"}
StreamRoutes == {"chat_stream", "persona_chat_stream"}
ResetRoutes == {"reset", "persona_reset"}
Routes == ChatRoutes \cup PersonaRoutes \cup ResetRoutes

RouteIds == {"s" \o ToString(i) : i \in 1..(MaxRequests + 2)}

\* the model (/chat) or persona_id (/persona-chat) a request may carry
LabelsOf(route) ==
    IF route \in ChatRoutes THEN ModelTypes
    ELSE IF route \in PersonaRoutes THEN Personas
    ELSE {None}

\* CHAT_SYSTEM_PROMPTS.get(model_type, CHAT_SYSTEM_PROMPTS['flux'])
ChatSystemPrompt(model_type) ==
    IF model_type \in ModelTypes
    THEN "chat prompt " \o model_type
    ELSE "chat prompt flux"

\* load_persona_prompt(persona_id)
PersonaSystemPrompt(persona_id) == "persona prompt " \o persona_id

SystemPrompt(route, label) ==
    IF route \in ChatRoutes
    THEN ChatSystemPrompt(label)
    ELSE PersonaSystemPrompt(label)

\* full_message of the request numbered seq
UserText(seq) == "message " \o ToString(seq)

\* what call_ollama answers to the request numbered seq (tokens of a stream)
ReplyText(seq, tokens) == "reply " \o ToString(seq) \o "/" \o ToString(tokens)

\* the session cookie before the first request
EmptyJar ==
    [conversation_id |-> None,
     persona_conversation_id |-> None,
     active_persona |-> None]

\* session.get('conversation_id') or session.get('persona_conversation_id')
CookieId(route, session) ==
    IF route \in ChatRoutes \cup {"reset"}
    THEN session.conversation_id
    ELSE session.persona_conversation_id

\* mutant of ModelChanged: the comparison is == instead of !=
ModelChangedInverted(stored_model, model_type) ==
    stored_model # None /\ stored_model = model_type

\* if stored_model and stored_model != model_type
ModelChanged(stored_model, model_type) ==
    stored_model # None /\ stored_model # model_type

\* mutant of PersonaChanged: the comparison is == instead of !=
PersonaChangedInverted(stored_persona, persona_id) ==
    stored_persona # None /\ stored_persona = persona_id

\* if stored_persona and stored_persona != persona_id
PersonaChanged(stored_persona, persona_id) ==
    stored_persona # None /\ stored_persona # persona_id

\* the test that abandons the stored conversation
\* mutant of SwitchDetected: any stored label counts as a change
SwitchDetectedAlways(route, stored_model, stored_persona, label) ==
    stored_model # None

SwitchDetected(route, stored_model, stored_persona, label) ==
    IF route \in ChatRoutes
    THEN ModelChanged(stored_model, label)
    ELSE PersonaChanged(stored_persona, label)

\* session['conversation_id'] = conversation_id, or the two persona keys
BindCookie(route, session, session_id, label) ==
    IF route \in ChatRoutes
    THEN [session EXCEPT !.conversation_id = session_id]
    ELSE [session EXCEPT !.persona_conversation_id = session_id,
                         !.active_persona = label]

\* mutant of UnbindCookie: the keys are not popped
UnbindCookieKept(route, session) == session

\* session.pop('conversation_id'), or the pops of the two persona keys
UnbindCookie(route, session) ==
    IF route = "reset"
    THEN [session EXCEPT !.conversation_id = None]
    ELSE [session EXCEPT !.persona_conversation_id = None,
                         !.active_persona = None]

IdleReq == [pc |-> "idle"]

NewReq(route, label, seq, session) ==
    [pc |-> IF route \in ResetRoutes THEN "reset" ELSE "get",
     route |-> route,
     label |-> label,
     seq |-> seq,
     session |-> session,
     modified |-> FALSE,
     conversation_id |-> None,
     conversation |-> <<>>,
     stored_model |-> None,
     stored_persona |-> None,
     old_id |-> None,
     old_messages |-> <<>>,
     new_id |-> None,
     conversation_snapshot |-> <<>>,
     full_response |-> 0,
     cause |-> None]

RouteInit ==
    /\ max_messages = DefaultMaxMessages
    /\ max_age_hours = MaxAgeTicks
    /\ trim_in = <<>>
    /\ trim_out = [done |-> FALSE, value |-> <<>>]
    /\ store = EmptyTable
    /\ now = ClockStart
    /\ issued = {}
    /\ last = Idle
    /\ jar = EmptyJar
    /\ req = [r \in Slots |-> IdleReq]
    /\ nreq = 0

\* the client sends a request; it carries the cookie the client holds now
Receive(r) ==
    /\ nreq < MaxRequests
    /\ req[r].pc = "idle"
    /\ \A other \in Slots : other < r => req[other].pc # "idle"
    /\ \E route \in Routes :
        \E label \in LabelsOf(route) :
            req' = [req EXCEPT ![r] = NewReq(route, label, nreq + 1, jar)]
    /\ nreq' = nreq + 1
    /\ UNCHANGED <<max_messages, max_age_hours, trim_in, trim_out, store, now,
                   issued, last, jar>>

\* get_conversation, then the decision: switch, start, or continue
Get(r) ==
    /\ req[r].pc = "get"
    /\ LET q == req[r]
           conversation_id == CookieId(q.route, q.session)
           stored_persona == q.session.active_persona
           got == GetConversation(store, conversation_id)
           switch == SwitchDetected(q.route, got.model_type, stored_persona, q.label)
           continue == ~switch /\ got.messages # <<>>
       IN  /\ req' = [req EXCEPT ![r] =
                        [q EXCEPT !.conversation_id = conversation_id,
                                  !.conversation = got.messages,
                                  !.stored_model = got.model_type,
                                  !.stored_persona = stored_persona,
                                  !.session = IF continue
                                              THEN BindCookie(q.route, q.session,
                                                              conversation_id, q.label)
                                              ELSE q.session,
                                  !.modified = continue,
                                  !.pc = IF switch THEN "delete"
                                         ELSE IF continue THEN "save_user"
                                         ELSE "create"]]
    /\ UNCHANGED <<max_messages, max_age_hours, trim_in, trim_out, store, now,
                   issued, last, jar, nreq>>

\* the label changed: delete_session(conversation_id), forget the transcript
Delete(r) ==
    /\ req[r].pc = "delete"
    /\ LET q == req[r]
       IN  /\ store' = DeleteSession(store, q.conversation_id)
           /\ req' = [req EXCEPT ![r] =
                        [q EXCEPT !.old_id = q.conversation_id,
                                  !.old_messages = q.conversation,
                                  !.conversation_id = None,
                                  !.conversation = <<>>,
                                  !.stored_model = None,
                                  !.stored_persona = None,
                                  !.pc = "create"]]
    /\ UNCHANGED <<max_messages, max_age_hours, trim_in, trim_out, now, issued,
                   last, jar, nreq>>

\* no conversation: create_session(label, [system prompt]), bind the cookie
Create(r) ==
    /\ req[r].pc = "create"
    /\ LET q == req[r]
           conversation == <<Msg("system", SystemPrompt(q.route, q.label))>>
           session_id == FreshId(RouteIds, issued)
       IN  /\ store' = SaveMessages(store, session_id, conversation, q.label,
                                    max_messages, max_age_hours, now)
           /\ issued' = issued \cup {session_id}
           /\ req' = [req EXCEPT ![r] =
                        [q EXCEPT !.conversation_id = session_id,
                                  !.conversation = conversation,
                                  !.new_id = session_id,
                                  !.session = BindCookie(q.route, q.session,
                                                         session_id, q.label),
                                  !.modified = TRUE,
                                  !.pc = "save_user"]]
    /\ UNCHANGED <<max_messages, max_age_hours, trim_in, trim_out, now, last, jar, nreq>>

\* append the user message, save_messages, take the snapshot for the LLM call
SaveUser(r) ==
    /\ req[r].pc = "save_user"
    /\ LET q == req[r]
           conversation == Append(q.conversation, Msg("user", UserText(q.seq)))
           saved == SaveReturn(conversation, max_messages)
       IN  /\ store' = SaveMessages(store, q.conversation_id, conversation, q.label,
                                    max_messages, max_age_hours, now)
           /\ req' = [req EXCEPT ![r] =
                        [q EXCEPT !.conversation = saved,
                                  !.conversation_snapshot = saved,
                                  !.pc = IF q.route \in StreamRoutes
                                         THEN "headers" ELSE "call"]]
    /\ UNCHANGED <<max_messages, max_age_hours, trim_in, trim_out, now, issued,
                   last, jar, nreq>>

\* call_ollama returns: append the assistant message, save_messages
CallReturns(r) ==
    /\ req[r].pc = "call"
    /\ LET q == req[r]
           conversation == Append(q.conversation,
                                  Msg("assistant", ReplyText(q.seq, 0)))
       IN  /\ store' = SaveMessages(store, q.conversation_id, conversation, q.label,
                                    max_messages, max_age_hours, now)
           /\ req' = [req EXCEPT ![r] =
                        [q EXCEPT !.conversation = conversation, !.pc = "respond"]]
    /\ UNCHANGED <<max_messages, max_age_hours, trim_in, trim_out, now, issued,
                   last, jar, nreq>>

\* call_ollama raises: an error handler answers, nothing more is saved
CallRaises(r) ==
    /\ req[r].pc = "call"
    /\ req' = [req EXCEPT ![r].pc = "respond"]
    /\ UNCHANGED <<max_messages, max_age_hours, trim_in, trim_out, store, now,
                   issued, last, jar, nreq>>

\* /reset and /persona-reset: drop the cookie keys, delete_session
ResetDelete(r) ==
    /\ req[r].pc = "reset"
    /\ LET q == req[r]
           conversation_id == CookieId(q.route, q.session)
       IN  /\ store' = DeleteSession(store, conversation_id)
           /\ req' = [req EXCEPT ![r] =
                        [q EXCEPT !.old_id = conversation_id,
                                  !.session = UnbindCookie(q.route, q.session),
                                  !.modified = UnbindCookie(q.route, q.session)
                                                  # q.session,
                                  !.pc = "respond"]]
    /\ UNCHANGED <<max_messages, max_age_hours, trim_in, trim_out, now, issued,
                   last, jar, nreq>>

\* the cookie a response carries: the session, when the handler wrote to it
CookieAfter(q, cookie) == IF q.modified THEN q.session ELSE cookie

\* the response of a non-streaming route reaches the client
Respond(r) ==
    /\ req[r].pc = "respond"
    /\ LET q == req[r]
       IN  /\ jar' = CookieAfter(q, jar)
           /\ req' = [req EXCEPT ![r] = IdleReq]
    /\ UNCHANGED <<max_messages, max_age_hours, trim_in, trim_out, store, now,
                   issued, last, nreq>>

\* the headers of a streaming response reach the client, generate() starts
SendHeaders(r) ==
    /\ req[r].pc = "headers"
    /\ LET q == req[r]
       IN  /\ jar' = CookieAfter(q, jar)
           /\ req' = [req EXCEPT ![r].pc = "stream"]
    /\ UNCHANGED <<max_messages, max_age_hours, trim_in, trim_out, store, now,
                   issued, last, nreq>>

\* the stream ends (done, backend error or client gone) after some tokens
\* were accumulated in full_response; the finally block appends and saves
\* the reply when there was at least one and current_app still resolves
StreamEnds(r) ==
    /\ req[r].pc = "stream"
    /\ \E tokens \in 0..MaxTokens, context \in BOOLEAN :
        LET q == req[r]
            conversation == Append(q.conversation,
                                   Msg("assistant", ReplyText(q.seq, tokens)))
        IN  store' = IF tokens > 0 /\ context
                     THEN SaveMessages(store, q.conversation_id, conversation,
                                       q.label, max_messages, max_age_hours, now)
                     ELSE store
    /\ req' = [req EXCEPT ![r] = IdleReq]
    /\ UNCHANGED <<max_messages, max_age_hours, trim_in, trim_out, now, issued,
                   last, jar, nreq>>

\* the client stays away until every row written so far is past its age
\* (a request lasts far less than a tick, so time passes between requests)
Idling ==
    /\ \A r \in Slots : req[r].pc = "idle"
    /\ now + max_age_hours + 1 <= ClockStart + MaxTime
    /\ now' = now + max_age_hours + 1
    /\ UNCHANGED <<max_messages, max_age_hours, trim_in, trim_out, store, issued,
                   last, jar, req, nreq>>

Next ==
    \/ \E r \in Slots : Receive(r)
    \/ \E r \in Slots : Get(r)
    \/ \E r \in Slots : Delete(r)
    \/ \E r \in Slots : Create(r)
    \/ \E r \in Slots : SaveUser(r)
    \/ \E r \in Slots : CallReturns(r)
    \/ \E r \in Slots : CallRaises(r)
    \/ \E r \in Slots : ResetDelete(r)
    \/ \E r \in Slots : Respond(r)
    \/ \E r \in Slots : SendHeaders(r)
    \/ \E r \in Slots : StreamEnds(r)
    \/ Idling

Spec == RouteInit /\ [][Next]_vars

(***************************************************************************)
(* StreamSpec: /chat-stream and /persona-chat-stream with generate() taken *)
(* token by token.  The generator runs while the server writes the body,   *)
(* after the view function returned: the response is built without         *)
(* stream_with_context, so whether current_app still resolves in the       *)
(* finally block depends on who iterates the generator (a WSGI server has  *)
(* popped the context by then, a caller holding an application context has *)
(* not); both outcomes are kept.                                           *)
(***************************************************************************)
\* how the token loop can end
Causes == {"done", "error", "disconnect"}

\* the client of this specification keeps to one model and one persona
StreamLabel(route) ==
    IF route = "chat_stream" THEN "flux" ELSE "creative_vision_guide"

\* the client sends a streaming request
ReceiveStream(r) ==
    /\ nreq < MaxRequests
    /\ req[r].pc = "idle"
    /\ \A other \in Slots : other < r => req[other].pc # "idle"
    /\ \E route \in StreamRoutes :
        req' = [req EXCEPT ![r] = NewReq(route, StreamLabel(route), nreq + 1, jar)]
    /\ nreq' = nreq + 1
    /\ UNCHANGED <<max_messages, max_age_hours, trim_in, trim_out, store, now,
                   issued, last, jar>>

\* mutant of StreamToken: every token is saved as it arrives
StreamTokenSaved(r) ==
    /\ req[r].pc = "stream"
    /\ req[r].full_response < MaxTokens
    /\ LET q == req[r]
           conversation ==
               Append(q.conversation,
                      Msg("assistant", ReplyText(q.seq, q.full_response + 1)))
       IN  store' = SaveMessages(store, q.conversation_id, conversation, q.label,
                                 max_messages, max_age_hours, now)
    /\ req' = [req EXCEPT ![r].full_response = req[r].full_response + 1]
    /\ UNCHANGED <<max_messages, max_age_hours, trim_in, trim_out, now, issued,
                   last, jar, nreq>>

\* for token in call_ollama(...): full_response += token; yield
StreamToken(r) ==
    /\ req[r].pc = "stream"
    /\ req[r].full_response < MaxTokens
    /\ req' = [req EXCEPT ![r].full_response = req[r].full_response + 1]
    /\ UNCHANGED <<max_messages, max_age_hours, trim_in, trim_out, store, now,
                   issued, last, jar, nreq>>

\* the loop ends: the token source is exhausted, it raises, or the client is
\* gone (GeneratorExit at a yield, so at least one token was accumulated)
StreamStops(r) ==
    /\ req[r].pc = "stream"
    /\ \E cause \in Causes :
        /\ cause = "disconnect" => req[r].full_response > 0
        /\ req' = [req EXCEPT ![r].pc = "finally", ![r].cause = cause]
    /\ UNCHANGED <<max_messages, max_age_hours, trim_in, trim_out, store, now,
                   issued, last, jar, nreq>>

\* finally: if full_response, append the assistant message and save it
\* through current_app.conversation_store, which raises without a context
Finalise(r) ==
    /\ req[r].pc = "finally"
    /\ \E context \in BOOLEAN :
        LET q == req[r]
            conversation ==
                Append(q.conversation,
                       Msg("assistant", ReplyText(q.seq, q.full_response)))
        IN  store' = IF q.full_response > 0 /\ context
                     THEN SaveMessages(store, q.conversation_id, conversation,
                                       q.label, max_messages, max_age_hours, now)
                     ELSE store
    /\ req' = [req EXCEPT ![r] = IdleReq]
    /\ UNCHANGED <<max_messages, max_age_hours, trim_in, trim_out, now, issued,
                   last, jar, nreq>>

StreamNext ==
    \/ \E r \in Slots : ReceiveStream(r)
    \/ \E r \in Slots : Get(r)
    \/ \E r \in Slots : Create(r)
    \/ \E r \in Slots : SaveUser(r)
    \/ \E r \in Slots : SendHeaders(r)
    \/ \E r \in Slots : StreamToken(r)
    \/ \E r \in Slots : StreamStops(r)
    \/ \E r \in Slots : Finalise(r)
    \/ Idling

StreamSpec == RouteInit /\ [][StreamNext]_vars

(***************************************************************************)
(* EstablishedSpec: the six routes, started from a client that already     *)
(* holds a /chat and a /persona-chat conversation, each filled to          *)
(* max_messages by ten earlier turns, and that keeps to its model and its  *)
(* persona (Spec has the client that changes them).                        *)
(***************************************************************************)
EstablishedIds == [chat |-> "c0", persona_chat |-> "p0"]
EstablishedLabels == [chat |-> "flux", persona_chat |-> "creative_vision_guide"]

\* the model or persona_id the requests of this client carry
EstablishedLabel(route) ==
    IF route \in ChatRoutes THEN EstablishedLabels.chat
    ELSE IF route \in PersonaRoutes THEN EstablishedLabels.persona_chat
    ELSE None

\* the transcript ten completed turns leave: system prompt and ten pairs
EstablishedTranscript(route) ==
    <<Msg("system", SystemPrompt(route, EstablishedLabels[route]))>>
        \o Tail(PairTranscript((DefaultMaxMessages - 1) \div 2))

EstablishedRow(route) ==
    NewRow(EstablishedTranscript(route), EstablishedLabels[route], ClockStart)

EstablishedInit ==
    /\ max_messages = DefaultMaxMessages
    /\ max_age_hours = MaxAgeTicks
    /\ trim_in = <<>>
    /\ trim_out = [done |-> FALSE, value |-> <<>>]
    /\ now = ClockStart
    /\ issued = {EstablishedIds.chat, EstablishedIds.persona_chat}
    /\ last = Idle
    /\ req = [r \in Slots |-> IdleReq]
    /\ nreq = 0
    /\ store = Upsert(Upsert(EmptyTable, EstablishedIds.chat, EstablishedRow("chat")),
                      EstablishedIds.persona_chat, EstablishedRow("persona_chat"))
    /\ jar = BindCookie("persona_chat",
                        BindCookie("chat", EmptyJar, EstablishedIds.chat,
                                   EstablishedLabels.chat),
                        EstablishedIds.persona_chat, EstablishedLabels.persona_chat)

\* the client sends a request with the cookie it holds now
EstablishedReceive(r) ==
    /\ nreq < MaxRequests
    /\ req[r].pc = "idle"
    /\ \A other \in Slots : other < r => req[other].pc # "idle"
    /\ \E route \in Routes :
        req' = [req EXCEPT ![r] =
                  NewReq(route, EstablishedLabel(route), nreq + 1, jar)]
    /\ nreq' = nreq + 1
    /\ UNCHANGED <<max_messages, max_age_hours, trim_in, trim_out, store, now,
                   issued, last, jar>>

EstablishedNext ==
    \/ \E r \in Slots : EstablishedReceive(r)
    \/ \E r \in Slots : Get(r)
    \/ \E r \in Slots : Create(r)
    \/ \E r \in Slots : SaveUser(r)
    \/ \E r \in Slots : CallReturns(r)
    \/ \E r \in Slots : CallRaises(r)
    \/ \E r \in Slots : ResetDelete(r)
    \/ \E r \in Slots : Respond(r)
    \/ \E r \in Slots : SendHeaders(r)
    \/ \E r \in Slots : StreamEnds(r)
    \/ Idling

EstablishedSpec == EstablishedInit /\ [][EstablishedNext]_vars


(***************************************************************************)
(* CorruptSpec: the established client again, but the conversation column  *)
(* of one of its two rows holds text json.loads rejects: nothing, the      *)
(* text cut short of its last token, or the text without its first token.  *)
(* The store never writes such text itself; it is what a damaged or        *)
(* foreign write to the database file leaves for get_conversation.         *)
(***************************************************************************)
CorruptTexts(text) ==
    {<<>>, SubSeq(text, 1, Len(text) - 1), Tail(text)}

EstablishedStore ==
    Upsert(Upsert(EmptyTable, EstablishedIds.chat, EstablishedRow("chat")),
           EstablishedIds.persona_chat, EstablishedRow("persona_chat"))

CorruptInit ==
    /\ max_messages = DefaultMaxMessages
    /\ max_age_hours = MaxAgeTicks
    /\ trim_in = <<>>
    /\ trim_out = [done |-> FALSE, value |-> <<>>]
    /\ now = ClockStart
    /\ issued = {EstablishedIds.chat, EstablishedIds.persona_chat}
    /\ last = Idle
    /\ req = [r \in Slots |-> IdleReq]
    /\ nreq = 0
    /\ \E route \in DOMAIN EstablishedIds :
          \E text \in CorruptTexts(EstablishedRow(route).conversation) :
             store = [EstablishedStore EXCEPT
                         ![EstablishedIds[route]].conversation = text]
    /\ jar = BindCookie("persona_chat",
                        BindCookie("chat", EmptyJar, EstablishedIds.chat,
                                   EstablishedLabels.chat),
                        EstablishedIds.persona_chat, EstablishedLabels.persona_chat)

CorruptSpec == CorruptInit /\ [][EstablishedNext]_vars

(***************************************************************************)
(* SaveSpec: save_messages taken in its two parts, called by concurrent    *)
(* threads on one store.  The call first trims, serializes and reads the   *)
(* clock (lines 232-234), and only then opens its transaction, upserts the *)
(* row with the timestamp it read, sweeps with a cutoff read inside the    *)
(* transaction, and commits (lines 236-246).  SQLite serializes the        *)
(* transactions, not the clock reads before them.                          *)
(***************************************************************************)
IdleCall == [pc |-> "idle"]

SaveInit ==
    /\ max_messages = MaxLen - 2
    /\ max_age_hours = MaxAgeTicks
    /\ trim_in = <<>>
    /\ trim_out = [done |-> FALSE, value |-> <<>>]
    /\ store = EmptyTable
    /\ now = ClockStart
    /\ issued = {}
    /\ last = Idle
    /\ jar = <<>>
    /\ req = [c \in Slots |-> IdleCall]
    /\ nreq = 0

\* trimmed = _trim_messages(messages); serialized = json.dumps(trimmed);
\* timestamp = datetime.now(timezone.utc).isoformat()
SaveStamp(c) ==
    /\ nreq < MaxRequests
    /\ req[c].pc = "idle"
    /\ \E session_id \in StoreIds, model_type \in Labels,
          messages \in StoreTranscripts :
          req' = [req EXCEPT ![c] =
                    [pc |-> "commit",
                     session_id |-> session_id,
                     model_type |-> model_type,
                     serialized |-> Dumps(TrimMessages(messages, max_messages)),
                     timestamp |-> IsoFormat(now)]]
    /\ nreq' = nreq + 1
    /\ UNCHANGED <<max_messages, max_age_hours, trim_in, trim_out, store, now,
                   issued, last, jar>>

\* with self._connect() as conn: INSERT ... ON CONFLICT ...; _cleanup; commit
SaveCommit(c) ==
    /\ req[c].pc = "commit"
    /\ LET q == req[c]
           row == [model_type |-> q.model_type,
                   conversation |-> q.serialized,
                   updated_at |-> q.timestamp]
       IN  store' = Cleanup(Upsert(store, q.session_id, row), max_age_hours, now)
    /\ req' = [req EXCEPT ![c] = IdleCall]
    /\ UNCHANGED <<max_messages, max_age_hours, trim_in, trim_out, now, issued,
                   last, jar, nreq>>

\* time passes while calls are in progress
SaveTick ==
    /\ now < ClockStart + MaxTime
    /\ now' = now + 1
    /\ UNCHANGED <<max_messages, max_age_hours, trim_in, trim_out, store, issued,
                   last, jar, req, nreq>>

SaveNext ==
    \/ \E c \in Slots : SaveStamp(c)
    \/ \E c \in Slots : SaveCommit(c)
    \/ SaveTick

SaveSpec == SaveInit /\ [][SaveNext]_vars

(***************************************************************************)
(* SequentialSpec: one client that sends its next request only after the   *)
(* response to the previous one: any of the six routes with any model or   *)
(* persona, the LLM call returning or raising, from no session.            *)
(***************************************************************************)
MaxTurns == MaxRequests + 2

SequentialReceive(r) ==
    /\ nreq < MaxTurns
    /\ \A other \in Slots : req[other].pc = "idle"
    /\ \A other \in Slots : r <= other
    /\ \E route \in Routes :
        \E label \in LabelsOf(route) :
            req' = [req EXCEPT ![r] = NewReq(route, label, nreq + 1, jar)]
    /\ nreq' = nreq + 1
    /\ UNCHANGED <<max_messages, max_age_hours, trim_in, trim_out, store, now,
                   issued, last, jar>>

SequentialNext ==
    \/ \E r \in Slots : SequentialReceive(r)
    \/ \E r \in Slots : Get(r)
    \/ \E r \in Slots : Delete(r)
    \/ \E r \in Slots : Create(r)
    \/ \E r \in Slots : SaveUser(r)
    \/ \E r \in Slots : CallReturns(r)
    \/ \E r \in Slots : CallRaises(r)
    \/ \E r \in Slots : ResetDelete(r)
    \/ \E r \in Slots : Respond(r)
    \/ \E r \in Slots : SendHeaders(r)
    \/ \E r \in Slots : StreamEnds(r)

SequentialSpec == RouteInit /\ [][SequentialNext]_vars

(***************************************************************************)
(* TurnsSpec: a client that talks to /chat only, keeps to the model of its *)
(* first request, waits for each response, and whose LLM calls all         *)
(* succeed; more turns than max_messages has room for.  The store is       *)
(* built with the default max_messages or with a small one.                *)
(***************************************************************************)
TurnsInit ==
    /\ max_messages \in {MaxLen, DefaultMaxMessages}
    /\ max_age_hours = MaxAgeTicks
    /\ trim_in = <<>>
    /\ trim_out = [done |-> FALSE, value |-> <<>>]
    /\ store = EmptyTable
    /\ now = ClockStart
    /\ issued = {}
    /\ last = Idle
    /\ jar = EmptyJar
    /\ req = [r \in Slots |-> IdleReq]
    /\ nreq = 0

\* the model the client's conversation has, if it has one
TurnsModel ==
    IF jar.conversation_id \in DOMAIN store
    THEN {store[jar.conversation_id].model_type}
    ELSE ModelTypes

TurnsReceive(r) ==
    /\ nreq < MaxPairs
    /\ \A other \in Slots : req[other].pc = "idle"
    /\ \A other \in Slots : r <= other
    /\ \E model_type \in TurnsModel :
          req' = [req EXCEPT ![r] = NewReq("chat", model_type, nreq + 1, jar)]
    /\ nreq' = nreq + 1
    /\ UNCHANGED <<max_messages, max_age_hours, trim_in, trim_out, store, now,
                   issued, last, jar>>

TurnsNext ==
    \/ \E r \in Slots : TurnsReceive(r)
    \/ \E r \in Slots : Get(r)
    \/ \E r \in Slots : Create(r)
    \/ \E r \in Slots : SaveUser(r)
    \/ \E r \in Slots : CallReturns(r)
    \/ \E r \in Slots : Respond(r)

TurnsSpec == TurnsInit /\ [][TurnsNext]_vars

(***************************************************************************)
(* Properties of _trim_messages (TrimSpec).                                *)
(***************************************************************************)
Trimmed == trim_out.done /\ Len(trim_in) > max_messages /\ trim_in # <<>>

NonSystem(msgs) == SelectSeq(msgs, LAMBDA m : m.role # "system")

\* the cut of the non-system remainder lands on an assistant message
CutOnAssistant ==
    /\ Trimmed
    /\ LET conv == ConvMessages(trim_in)
           start_index == Len(conv) - MaxConvMessages(trim_in, max_messages)
       IN  /\ start_index >= 0
           /\ start_index < Len(conv)
           /\ conv[start_index + 1].role = "assistant"

\* C1: bounded size - for every transcript and every budget N >= 1 the
\* transcript returned by _trim_messages has at most N messages.
C1_BoundedSize ==
    (trim_out.done /\ max_messages >= 1) => Len(trim_out.value) <= max_messages

C1_Witness ==
    /\ Trimmed
    /\ max_messages >= 1
    /\ HasSystem(trim_in)
    /\ Len(trim_out.value) = max_messages

\* C2: system preservation - when the input starts with a system message and
\* N >= 1, the first returned message is that very message.
C2_SystemPreserved ==
    (trim_out.done /\ max_messages >= 1 /\ trim_in # <<>> /\ HasSystem(trim_in))
        => (trim_out.value # <<>> /\ trim_out.value[1] = trim_in[1])

C2_Witness ==
    /\ Trimmed
    /\ max_messages >= 1
    /\ HasSystem(trim_in)
    /\ Len(trim_out.value) < Len(trim_in)
    /\ trim_out.value[1] = trim_in[1]

EveryAssistantAnswers(msgs) ==
    LET conv == IF msgs # <<>> /\ HasSystem(msgs) THEN Tail(msgs) ELSE msgs
    IN  \A i \in 1..Len(conv) :
            /\ conv[i].role # "system"
            /\ conv[i].role = "assistant" => (i > 1 /\ conv[i - 1].role = "user")

C10_PairsKept ==
    LET k == (Len(trim_in) - 1) \div 2
    IN  (trim_out.done /\ Len(trim_in) % 2 = 1 /\ trim_in = PairTranscript(k)) =>
            /\ (1 + 2 * k <= max_messages) => trim_out.value = trim_in
            /\ (1 + 2 * k > max_messages) =>
                /\ trim_out.value =
                      <<trim_in[1]>>
                         \o SubSeq(trim_in,
                                   Len(trim_in) - 2 * ((max_messages - 1) \div 2) + 1,
                                   Len(trim_in))
                /\ max_messages = DefaultMaxMessages =>
                      /\ Len(trim_out.value) = DefaultMaxMessages
                      /\ trim_out.value[1] = Msg("system", "System instructions")
                      /\ trim_out.value[2].role = "user"
                      /\ trim_out.value[Len(trim_out.value)].role = "assistant"

C10_Witness ==
    /\ trim_out.done
    /\ max_messages = DefaultMaxMessages
    /\ Len(trim_in) % 2 = 1
    /\ trim_in = PairTranscript((Len(trim_in) - 1) \div 2)
    /\ Len(trim_in) > max_messages
    /\ Len(trim_out.value) = DefaultMaxMessages

\* C12 as claimed: for the empty transcript, and for every transcript when
\* N <= 0, _trim_messages returns the empty list.
C12_EdgeCasesReturnEmpty ==
    (trim_out.done /\ (trim_in = <<>> \/ max_messages <= 0))
        => trim_out.value = <<>>

\* a system message occurs only as the leading message
SystemOnlyLeads(msgs) ==
    \A i \in 2..Len(msgs) : msgs[i].role # "system"

\* no user message directly follows a user message
NoUserAfterUser(msgs) ==
    \A i \in 2..Len(msgs) : ~(msgs[i].role = "user" /\ msgs[i - 1].role = "user")

\* the message the result ends on, other than a system message, answers
EndsOnCompletedExchange(msgs) ==
    NonSystem(msgs) # <<>>
        => NonSystem(msgs)[Len(NonSystem(msgs))].role = "assistant"

IsSuffix(s, t) ==
    /\ Len(s) <= Len(t)
    /\ s = SubSeq(t, Len(t) - Len(s) + 1, Len(t))

\* C21 as claimed: trim shape - the result is the leading system message of
\* the input (only if the input starts with one) followed by a suffix of the
\* remaining messages: messages go from the front only, never from the back.
C21_TrimShape ==
    (trim_out.done /\ trim_in # <<>>) =>
        \E kept \in {SubSeq(ConvMessages(trim_in), k, Len(ConvMessages(trim_in))) :
                        k \in 1..(Len(ConvMessages(trim_in)) + 1)} :
            /\ IsSuffix(kept, ConvMessages(trim_in))
            /\ trim_out.value = SystemPart(trim_in) \o kept

\* the budget leaves no room for a message other than the system message
Exhausted ==
    /\ trim_in # <<>>
    /\ max_messages <= (IF HasSystem(trim_in) THEN 1 ELSE 0)

LegacyRemainder ==
    IF trim_in # <<>> /\ HasSystem(trim_in) /\ trim_out.legacy # <<>>
    THEN Tail(trim_out.legacy)
    ELSE trim_out.legacy

\* messages were removed and the legacy remainder ends on a user message
LegacyEndsOnUser ==
    /\ trim_in # <<>>
    /\ Len(trim_in) > max_messages
    /\ LegacyRemainder # <<>>
    /\ LegacyRemainder[Len(LegacyRemainder)].role = "user"

\* C28: the two trimming implementations - app/database.py and the legacy
\* prompt_generator.py return the same list for every transcript and
\* budget, except that when messages are removed and the kept remainder
\* ends on a user message, app/database.py returns the list without that one
\* trailing user message and prompt_generator.py returns it with it.
C28_TrimImplementations ==
    trim_out.done =>
        IF LegacyEndsOnUser
        THEN trim_out.value
                = SubSeq(trim_out.legacy, 1, Len(trim_out.legacy) - 1)
        ELSE trim_out.value = trim_out.legacy

C28_Witness ==
    /\ trim_out.done
    /\ LegacyEndsOnUser
    /\ HasSystem(trim_in)
    /\ Len(trim_out.legacy) >= 3
    /\ Len(trim_out.legacy) < Len(trim_in)
    /\ Len(trim_out.value) = Len(trim_out.legacy) - 1
    /\ trim_out.value[Len(trim_out.value)].role = "assistant"

(***************************************************************************)
(* Properties of the facade (StoreSpec).                                   *)
(***************************************************************************)
NotFound == [messages |-> <<>>, model_type |-> None]

Wrote == last.op \in {"save_messages", "create_session"}

\* the row of session_id was last written more than max_age_hours ago
Expired(session_id) ==
    /\ session_id \in DOMAIN store
    /\ ParseIso(store[session_id].updated_at) < now - max_age_hours

\* C4: round trip - save_messages(id, T, p) returns trim(T, N), and a
\* get_conversation(id) issued directly afterwards returns (trim(T, N), p), the
\* value that was returned; create_session goes through the same path.
C4_RoundTrip ==
    /\ last.op = "save_messages" =>
          /\ last.ret = TrimMessages(last.messages, max_messages)
          /\ GetConversation(store, last.session_id)
                = [messages |-> last.ret, model_type |-> last.model_type]
    /\ last.op = "create_session" =>
          GetConversation(store, last.ret)
             = [messages |-> TrimMessages(last.messages, max_messages),
                model_type |-> last.model_type]

C4_Witness ==
    /\ last.op = "save_messages"
    /\ Len(last.messages) > max_messages
    /\ Len(last.ret) < Len(last.messages)
    /\ GetConversation(store, last.session_id).messages = last.ret
    /\ last.ret # <<>>

\* C5: idempotent delete - after delete_session(x), for x existing, unknown
\* or null, get_conversation(x) returns ([], None), and a second
\* delete_session(x) leaves the table as the first one left it.
C5_IdempotentDelete ==
    last.op = "delete_session" =>
        /\ GetConversation(store, last.session_id) = NotFound
        /\ DeleteSession(store, last.session_id) = store

C5_Witness ==
    /\ last.op = "delete_session"
    /\ last.again
    /\ last.existed
    /\ store # EmptyTable
    /\ GetConversation(store, last.session_id) = NotFound

\* C6 as claimed: get_conversation returns ([], None) for a missing, a null
\* and an expired identifier in every reachable state of the store.
C6_NotFoundForMissingNullExpired ==
    \A session_id \in StoreIds \cup {None} :
        (session_id = None \/ session_id \notin DOMAIN store \/ Expired(session_id))
            => GetConversation(store, session_id) = NotFound

\* C6 amended: get_conversation returns ([], None) for a missing and for a
\* null identifier in every reachable state, and for an expired identifier
\* once a write (save_messages, create_session) has run its sweep; an expired
\* row that no write has swept yet is still returned.
C6_NotFoundForMissingNullSwept ==
    /\ last.op = "get_conversation" =>
          ((last.session_id = None \/ last.session_id \notin DOMAIN store)
              => last.ret = NotFound)
    /\ Wrote =>
          /\ \A session_id \in StoreIds :
                ~Expired(session_id)
          /\ \A session_id \in DOMAIN last.swept :
                GetConversation(store, session_id) = NotFound

C6_Witness ==
    /\ last.op = "save_messages"
    /\ \E session_id \in DOMAIN last.swept :
          /\ session_id # last.session_id
          /\ GetConversation(store, session_id) = NotFound

\* C9: expiry on write - with max_age_hours = H > 0, when a save_messages
\* call completes at time t no row older than t - H is left, the rows the
\* call removed were all older than t - H (a row not older than the cutoff is
\* kept), and get_conversation on a removed identifier returns ([], None).
C9_ExpiryOnWrite ==
    (Wrote /\ max_age_hours > 0) =>
        /\ \A session_id \in DOMAIN store :
              ParseIso(store[session_id].updated_at) >= now - max_age_hours
        /\ \A session_id \in DOMAIN last.swept :
              /\ last.swept[session_id] < now - max_age_hours
              /\ GetConversation(store, session_id) = NotFound

C9_Witness ==
    /\ last.op = "save_messages"
    /\ max_age_hours > 0
    /\ \E session_id \in DOMAIN last.swept :
          /\ session_id # last.session_id
          /\ last.swept[session_id] = now - 2 * max_age_hours
          /\ GetConversation(store, session_id) = NotFound

\* the record of session_id is the same before and after the step
Untouched(session_id) ==
    (session_id \in DOMAIN store \/ session_id \in DOMAIN store') =>
        /\ session_id \in DOMAIN store
        /\ session_id \in DOMAIN store'
        /\ store'[session_id] = store[session_id]

\* the step removed the record of session_id, which was older than the cutoff
SweptAsExpired(session_id) ==
    /\ session_id \in DOMAIN store
    /\ session_id \notin DOMAIN store'
    /\ max_age_hours # 0
    /\ TextLess(store[session_id].updated_at, IsoFormat(now - max_age_hours))

\* C29: frame - save_messages(x, ...) (and create_session, which calls it)
\* changes only the record of x and removes only records older than the
\* expiry cutoff, every other record keeps label, transcript and updated_at;
\* delete_session(x) changes no record other than x; get_conversation changes
\* no record and sweeps nothing.
C29_Frame ==
    [][/\ last'.op \in {"save_messages", "create_session"} =>
             \A i \in StoreIds \ {last'.session_id} :
                Untouched(i) \/ SweptAsExpired(i)
       /\ last'.op = "delete_session" =>
             \A i \in StoreIds \ {last'.session_id} : Untouched(i)
       /\ last'.op = "get_conversation" => store' = store]_vars

\* save_messages wrote one record and left the other, older one as it was
C29_Witness ==
    /\ last.op = "save_messages"
    /\ store[last.session_id].updated_at = IsoFormat(now)
    /\ \E i \in DOMAIN store :
          /\ i # last.session_id
          /\ ParseIso(store[i].updated_at) = now - max_age_hours
          /\ store[i].conversation # store[last.session_id].conversation

(***************************************************************************)
(* Properties of the route-level session binding (Spec).                   *)
(***************************************************************************)
Range(f) == {f[i] : i \in DOMAIN f}

InFlight(r, routes) == req[r].pc # "idle" /\ req[r].route \in routes

\* the steps of the request in slot r, told by its position before and after
GetStep(r) == req[r].pc = "get" /\ req'[r].pc # "get"
DeleteStep(r) == req[r].pc = "delete" /\ req'[r].pc = "create"
CreateStep(r) == req[r].pc = "create" /\ req'[r].pc = "save_user"
SaveUserStep(r) == req[r].pc = "save_user" /\ req'[r].pc \in {"call", "headers"}
CookieStep(r) == req[r].pc \in {"respond", "headers"} /\ req'[r].pc # req[r].pc

\* the request in slot r abandoned the record old_id and made new_id
Switched(r) == req[r].old_id # None /\ req[r].new_id # None

\* what the steps of a switching request of the given routes must do
SwitchIsolation(r, routes) ==
    InFlight(r, routes) =>
        /\ GetStep(r) =>
              LET got == GetConversation(store, CookieId(req[r].route, req[r].session))
              IN  (got.model_type # None /\ got.model_type # req[r].label)
                     => /\ req'[r].pc = "delete"
                        /\ req'[r].conversation_id
                              = CookieId(req[r].route, req[r].session)
        /\ DeleteStep(r) =>
              /\ req[r].conversation_id \notin DOMAIN store'
              /\ GetConversation(store', req[r].conversation_id) = NotFound
        /\ (CreateStep(r) /\ req[r].old_id # None) =>
              LET new == req'[r].conversation_id
              IN  /\ new \notin issued
                  /\ new # req[r].old_id
                  /\ GetConversation(store', new)
                        = [messages |->
                              <<Msg("system", SystemPrompt(req[r].route, req[r].label))>>,
                           model_type |-> req[r].label]
        /\ (SaveUserStep(r) /\ Switched(r)) =>
              LET got == GetConversation(store', req[r].new_id)
              IN  /\ got.model_type = req[r].label
                  /\ Len(got.messages) = 2
                  /\ \A m \in Range(got.messages) : m \notin Range(req[r].old_messages)
        /\ (CookieStep(r) /\ Switched(r)) =>
              CookieId(req[r].route, jar') = req[r].new_id

\* a streaming request that switched, right after its cookie reached the client
SwitchedAndRebound(r, route) ==
    /\ req[r].pc = "stream"
    /\ req[r].route = route
    /\ Switched(r)
    /\ Len(req[r].old_messages) >= 3
    /\ CookieId(route, jar) = req[r].new_id
    /\ req[r].new_id # req[r].old_id
    /\ GetConversation(store, req[r].old_id) = NotFound
    /\ GetConversation(store, req[r].new_id).model_type = req[r].label

\* C7: participant-switch isolation in /chat and /chat-stream - when the
\* cookie-held conversation_id resolves to a record labelled A and the
\* request carries model B # A, the A record is deleted (get_conversation on
\* it returns ([], None)), a record labelled B is created under an identifier
\* never issued before, whose transcript holds no message of the old one, and
\* the cookie is rebound to the new identifier.
C7_ParticipantSwitchIsolation ==
    [][\A r \in Slots : SwitchIsolation(r, ChatRoutes)]_vars

C7_Witness == \E r \in Slots : SwitchedAndRebound(r, "chat_stream")

\* the persona cookie names the label of the record it points at
PersonaCookieAgrees(session) ==
    session.persona_conversation_id \in DOMAIN store
        => store[session.persona_conversation_id].model_type = session.active_persona

\* C8: changing persona resets the conversation in /persona-chat and
\* /persona-chat-stream - whenever the record under the cookie-held
\* persona_conversation_id has a label other than the request's persona_id,
\* it is deleted and a record labelled persona_id, holding that persona's
\* system prompt, is created under a fresh identifier; the cookie value
\* active_persona, from which the code decides, equals the stored label
\* whenever a record is stored.
C8_PersonaChangeResets ==
    /\ [](/\ PersonaCookieAgrees(jar)
          /\ \A r \in Slots :
                req[r].pc # "idle" => PersonaCookieAgrees(req[r].session))
    /\ [][\A r \in Slots : SwitchIsolation(r, PersonaRoutes)]_vars

C8_Witness == \E r \in Slots : SwitchedAndRebound(r, "persona_chat_stream")

(***************************************************************************)
(* Properties of the routes over an established conversation               *)
(* (EstablishedSpec).                                                      *)
(***************************************************************************)
StoredTranscript(session_id) == Loads(store[session_id].conversation)

\* C11: store invariant under the routes - in every state reachable through
\* /chat, /chat-stream, /persona-chat, /persona-chat-stream, /reset and
\* /persona-reset requests with max_messages = 21, every stored transcript is
\* non-empty, has at most 21 messages, and starts with a system message.
C11_StoredTranscriptShape ==
    \A session_id \in DOMAIN store :
        LET transcript == StoredTranscript(session_id)
        IN  /\ transcript # <<>>
            /\ Len(transcript) <= DefaultMaxMessages
            /\ transcript[1].role = "system"

\* a stored transcript that a route's save has cut and that is full again
C11_Witness ==
    \E session_id \in DOMAIN store :
        /\ Len(StoredTranscript(session_id)) = DefaultMaxMessages
        /\ StoredTranscript(session_id)[1].role = "system"
        /\ StoredTranscript(session_id)[2] # Msg("user", "user 0")

\* the request in slot r takes a step
Acting(r) == req'[r] # req[r]

\* the row of session_id is new or differs from the one before the step
RowChanged(session_id) ==
    /\ session_id \in DOMAIN store'
    /\ session_id \in DOMAIN store => store'[session_id] # store[session_id]

\* the lists the next save_messages call of the request in slot r may pass
WrittenBy(r) ==
    IF req[r].pc = "create"
    THEN {<<Msg("system", SystemPrompt(req[r].route, req[r].label))>>}
    ELSE IF req[r].pc = "save_user"
    THEN {Append(req[r].conversation, Msg("user", UserText(req[r].seq)))}
    ELSE IF req[r].pc = "call"
    THEN {Append(req[r].conversation, Msg("assistant", ReplyText(req[r].seq, 0)))}
    ELSE IF req[r].pc = "stream"
    THEN {Append(req[r].conversation, Msg("assistant", ReplyText(req[r].seq, k))) :
             k \in 1..MaxTokens}
    ELSE {}

\* the request in slot r completed its turn: its reply is in its transcript
TurnCompleted(r) ==
    /\ req[r].pc = "respond"
    /\ req[r].route = "chat"
    /\ Msg("assistant", ReplyText(req[r].seq, 0)) \in Range(req[r].conversation)

\* C17: last writer wins, no merge - every row that a step leaves changed
\* is, as a whole (label, transcript, updated_at), the row one save_messages
\* call of the acting request wrote from its own local transcript, whatever
\* another request stored under the identifier in between; so after two
\* concurrent requests on one session the record is the last write, and a
\* completed turn of the other request can be missing from it.
C17_LastWriterWins ==
    [][\A session_id \in DOMAIN store' :
          RowChanged(session_id) =>
             \E r \in Slots :
                /\ Acting(r)
                /\ req[r].pc # "idle"
                /\ session_id = IF req'[r].pc = "idle"
                                THEN req[r].conversation_id
                                ELSE req'[r].conversation_id
                /\ \E messages \in WrittenBy(r) :
                      store'[session_id]
                         = NewRow(TrimMessages(messages, max_messages),
                                  req[r].label, now)]_vars

\* lost update: both requests completed a turn on the same session, and the
\* stored transcript holds the turn of one of them only
C17_Witness ==
    \E r1 \in Slots, r2 \in Slots :
        /\ r1 # r2
        /\ TurnCompleted(r1)
        /\ TurnCompleted(r2)
        /\ req[r1].conversation_id = req[r2].conversation_id
        /\ req[r1].conversation_id \in DOMAIN store
        /\ LET stored == Range(StoredTranscript(req[r1].conversation_id))
           IN  /\ Msg("assistant", ReplyText(req[r2].seq, 0)) \in stored
               /\ Msg("assistant", ReplyText(req[r1].seq, 0)) \notin stored
               /\ Msg("user", UserText(req[r1].seq)) \notin stored

\* what the steps of a reset request, and of a chat request that arrives
\* with no identifier in its cookie, must do
ResetThenFresh(r) ==
    /\ (req[r].pc = "reset" /\ Acting(r)) =>
          LET bound == CookieId(req[r].route, req[r].session)
          IN  /\ req'[r].pc = "respond"
              /\ bound # None =>
                    /\ bound \notin DOMAIN store'
                    /\ GetConversation(store', bound) = NotFound
                    /\ \A other \in DOMAIN store' :
                          other \in DOMAIN store /\ store'[other] = store[other]
              /\ bound = None => store' = store
    /\ (req[r].pc = "respond" /\ Acting(r) /\ req[r].route \in ResetRoutes
           /\ req[r].old_id # None) =>
          /\ CookieId(req[r].route, jar') = None
          /\ req[r].route = "persona_reset" => jar'.active_persona = None
    /\ (req[r].pc = "get" /\ Acting(r)
           /\ CookieId(req[r].route, req[r].session) = None) =>
          req'[r].pc = "create"
    /\ (req[r].pc = "create" /\ Acting(r) /\ req[r].old_id = None) =>
          LET new == req'[r].conversation_id
          IN  /\ new \notin issued
              /\ new \notin DOMAIN store
              /\ CookieId(req[r].route, req'[r].session) = new
              /\ GetConversation(store', new).messages
                    = <<Msg("system", SystemPrompt(req[r].route, req[r].label))>>

\* C18: reset - the delete step of /reset (/persona-reset) removes the
\* record bound to the cookie's conversation_id (persona_conversation_id) and
\* no other; its response leaves the cookie without the identifier (and
\* without active_persona); a chat request that arrives without an
\* identifier creates a record under an identifier never issued before whose
\* transcript is the system prompt alone, so none of the old user or
\* assistant messages; reset with nothing bound succeeds and leaves the
\* table as it is.
C18_Reset ==
    [][\A r \in Slots : ResetThenFresh(r)]_vars

\* after a reset of the established /chat conversation, the next /chat
\* request has made its own record and is about to save its message
C18_Witness ==
    /\ now = ClockStart
    /\ EstablishedIds.chat \notin DOMAIN store
    /\ jar.conversation_id = None
    /\ \E r \in Slots :
          /\ req[r].pc = "save_user"
          /\ req[r].route = "chat"
          /\ req[r].old_id = None
          /\ req[r].new_id \notin {None, EstablishedIds.chat}
          /\ req[r].session.conversation_id = req[r].new_id
          /\ StoredTranscript(req[r].new_id)
                = <<Msg("system", SystemPrompt("chat", req[r].label))>>

\* the request in slot r has taken conversation_snapshot for the LLM call
HasSnapshot(r) ==
    /\ req[r].pc \in {"call", "headers", "stream", "respond"}
    /\ req[r].route \in ChatRoutes \cup PersonaRoutes

\* C24 as claimed: the snapshot handed to the LLM call ends with the user
\* message of the current request, in all four chat routes, also when the
\* stored transcript is already at max_messages.
C24_SnapshotEndsOnUserMessage ==
    \A r \in Slots :
        HasSnapshot(r) =>
            /\ req[r].conversation_snapshot # <<>>
            /\ req[r].conversation_snapshot[Len(req[r].conversation_snapshot)]
                  = Msg("user", UserText(req[r].seq))

\* C26 as claimed: a deleted session stays deleted - once /reset has
\* deleted the record of an identifier, no step of a request re-creates a
\* record under it.  No time passes before the step, so that the record
\* is missing because a reset deleted it and not because a sweep did.
C26_DeletedStaysDeleted ==
    [][now = ClockStart =>
          \A x \in issued :
             x \notin DOMAIN store => x \notin DOMAIN store']_vars

\* the identifier the save_messages call of this step of slot r names
WrittenId(r) ==
    IF req[r].pc = "create" THEN req'[r].conversation_id
    ELSE req[r].conversation_id

\* what a step of the request in slot r does to a record past its age
WriteKeepsOwnRecord(r) ==
    /\ (req[r].pc = "get" /\ Acting(r)
           /\ Expired(CookieId(req[r].route, req[r].session))) =>
          LET bound == CookieId(req[r].route, req[r].session)
          IN  /\ req'[r].pc = "save_user"
              /\ req'[r].conversation_id = bound
              /\ req'[r].conversation = StoredTranscript(bound)
              /\ store' = store
    /\ (req[r].pc \in {"create", "save_user", "call", "stream"} /\ Acting(r)
           /\ store' # store) =>
          /\ WrittenId(r) \in DOMAIN store'
          /\ store'[WrittenId(r)].updated_at = IsoFormat(now)
          /\ \E messages \in WrittenBy(r) :
                GetConversation(store', WrittenId(r)).messages
                   = TrimMessages(messages, max_messages)

\* C27: a write never expires its own record - with max_age_hours > 0,
\* every save_messages call of a request leaves a record under its
\* identifier, stamped with the time of the write, also when the record was
\* older than the cutoff before the call; a request whose cookie names such
\* a stale, not yet swept record reads its old transcript and continues it.
C27_WriteKeepsOwnRecord ==
    [][max_age_hours > 0 => \A r \in Slots : WriteKeepsOwnRecord(r)]_vars

\* time passed beyond max_age_hours; a /chat request continued the stale
\* record, whose write swept the equally old persona record but not its own
C27_Witness ==
    /\ now > ClockStart + max_age_hours
    /\ EstablishedIds.persona_chat \notin DOMAIN store
    /\ EstablishedIds.chat \in DOMAIN store
    /\ store[EstablishedIds.chat].updated_at = IsoFormat(now)
    /\ \E r \in Slots :
          /\ req[r].pc = "call"
          /\ req[r].conversation_id = EstablishedIds.chat
          /\ req[r].new_id = None
          /\ EstablishedTranscript("chat")[Len(EstablishedTranscript("chat"))]
                \in Range(StoredTranscript(EstablishedIds.chat))

\* call_ollama raised in the non-streaming request of slot r, which is about
\* to answer: its transcript has no reply to its message
FailedTurn(r) ==
    /\ req[r].pc = "respond"
    /\ req[r].route \in {"chat", "persona_chat"}
    /\ Msg("assistant", ReplyText(req[r].seq, 0)) \notin Range(req[r].conversation)

\* C30 as claimed: LLM failure in a non-streaming turn - when call_ollama
\* raises during /chat or /persona-chat (here in the only request sent so
\* far), the store holds exactly the transcript saved before the call, which
\* ends on the user message of the request and holds no reply to it; the
\* response leaves the cookie on the same identifier; and a request whose
\* cookie names a stored record of its participant continues that record.
C30_FailureKeepsTurn ==
    /\ [](\A r \in Slots :
             (FailedTurn(r) /\ nreq = 1) =>
                LET stored == GetConversation(store, req[r].conversation_id)
                IN  /\ stored.messages = req[r].conversation_snapshot
                    /\ stored.messages # <<>>
                    /\ stored.messages[Len(stored.messages)]
                          = Msg("user", UserText(req[r].seq))
                    /\ \A k \in 0..MaxTokens :
                          Msg("assistant", ReplyText(req[r].seq, k))
                             \notin Range(stored.messages)
                    /\ CookieId(req[r].route, req[r].session)
                          = req[r].conversation_id)
    /\ [][\A r \in Slots :
             /\ (FailedTurn(r) /\ nreq = 1 /\ Acting(r)) =>
                   CookieId(req[r].route, jar') = req[r].conversation_id
             /\ (req[r].pc = "get" /\ Acting(r)
                    /\ CookieId(req[r].route, req[r].session) \in DOMAIN store
                    /\ store[CookieId(req[r].route, req[r].session)].model_type
                          = req[r].label) =>
                   /\ req'[r].pc = "save_user"
                   /\ req'[r].conversation_id
                         = CookieId(req[r].route, req[r].session)]_vars

(***************************************************************************)
(* Properties of the routes over a damaged row (CorruptSpec).              *)
(***************************************************************************)
Malformed(session_id) ==
    /\ session_id \in DOMAIN store
    /\ ~WellFormed(store[session_id].conversation)

\* a request reads the row its cookie names and the row's text is malformed
ReadsMalformed(r) ==
    /\ req[r].pc = "get"
    /\ Acting(r)
    /\ Malformed(CookieId(req[r].route, req[r].session))

\* C19: malformed persisted transcript - get_conversation on a record whose
\* conversation text json.loads rejects returns the empty transcript (with
\* the stored label) instead of raising; the chat request that reads such a
\* record goes on to create_session, which stores the system prompt alone
\* under an identifier never issued before and binds the cookie to it.
C19_MalformedDegrades ==
    /\ [](\A session_id \in DOMAIN store :
             Malformed(session_id) =>
                GetConversation(store, session_id)
                   = [messages |-> <<>>,
                      model_type |-> store[session_id].model_type])
    /\ [][\A r \in Slots :
             /\ ReadsMalformed(r) =>
                   /\ req'[r].conversation = <<>>
                   /\ req'[r].pc = "create"
             /\ (req[r].pc = "create" /\ Acting(r)) =>
                   LET new == req'[r].conversation_id
                   IN  /\ req'[r].pc = "save_user"
                       /\ new \notin issued
                       /\ CookieId(req[r].route, req'[r].session) = new
                       /\ req'[r].conversation
                             = <<Msg("system",
                                     SystemPrompt(req[r].route, req[r].label))>>
                       /\ GetConversation(store', new).messages
                             = req'[r].conversation]_vars

\* a request found the row of its cookie, got no messages from it, and has
\* created a fresh conversation while the damaged row is still there
C19_Witness ==
    /\ \E session_id \in DOMAIN store : Malformed(session_id)
    /\ \E r \in Slots :
          /\ req[r].pc = "save_user"
          /\ req[r].stored_model # None
          /\ req[r].old_id = None
          /\ req[r].new_id # None
          /\ req[r].conversation_id = req[r].new_id
          /\ Len(req[r].conversation) = 1

(***************************************************************************)
(* Properties of the requests of a sequential client (SequentialSpec).     *)
(***************************************************************************)
\* the request in slot r neither switched nor created: it continues a record
Continuing(r) ==
    /\ req[r].pc \notin {"idle", "get", "delete", "create", "reset"}
    /\ req[r].route \notin ResetRoutes
    /\ req[r].new_id = None
    /\ req[r].old_id = None

\* what the steps of a chat request must do to the binding
SessionBinding(r) ==
    /\ (req[r].pc = "get" /\ Acting(r)) =>
          LET bound == CookieId(req[r].route, req[r].session)
              got == GetConversation(store, bound)
          IN  /\ got.messages = <<>> => req'[r].pc = "create"
              /\ (got.messages # <<>> /\ got.model_type = req[r].label) =>
                    /\ req'[r].pc = "save_user"
                    /\ req'[r].conversation_id = bound
                    /\ CookieId(req[r].route, req'[r].session) = bound
                    /\ req'[r].new_id = None
    /\ (req[r].pc = "create" /\ Acting(r)) =>
          LET new == req'[r].conversation_id
          IN  /\ new \notin issued
              /\ CookieId(req[r].route, req'[r].session) = new
              /\ GetConversation(store', new)
                    = [messages |->
                          <<Msg("system", SystemPrompt(req[r].route, req[r].label))>>,
                       model_type |-> req[r].label]
    /\ (req[r].pc = "save_user" /\ Acting(r) /\ Continuing(r)) =>
          LET bound == req[r].conversation_id
          IN  /\ DOMAIN store' = DOMAIN store
              /\ GetConversation(store', bound).model_type = req[r].label
              /\ GetConversation(store', bound).messages
                    = TrimMessages(
                         Append(GetConversation(store, bound).messages,
                                Msg("user", UserText(req[r].seq))),
                         max_messages)
    /\ (Continuing(r) /\ Acting(r)) =>
          /\ issued' = issued
          /\ DOMAIN store' = DOMAIN store
          /\ req'[r].pc # "idle" =>
                req'[r].conversation_id = req[r].conversation_id
          /\ req[r].pc \in {"respond", "headers"} =>
                CookieId(req[r].route, jar') = req[r].conversation_id

\* C23: session binding of a sequential client - a chat request whose cookie
\* names no record with a transcript creates a record that holds the system
\* prompt of the requested model or persona, under an identifier never
\* issued before, and binds the cookie to it; a request with the same label
\* as the record its cookie names continues under that identifier: it
\* appends its user message to that record, creates no record, and its
\* response leaves the cookie on the same identifier.
C23_SessionBinding ==
    [][\A r \in Slots : SessionBinding(r)]_vars

\* the third request of a client continues the record its first one made
C23_Witness ==
    /\ Cardinality(issued) = 1
    /\ \E r \in Slots :
          /\ req[r].pc = "call"
          /\ req[r].seq = 3
          /\ Continuing(r)
          /\ req[r].conversation_id \in issued
          /\ CookieId(req[r].route, jar) = req[r].conversation_id
          /\ Len(GetConversation(store, req[r].conversation_id).messages) >= 5

(***************************************************************************)
(* Properties of the streaming routes (StreamSpec).                        *)
(***************************************************************************)
\* the request in slot r is between the save of its user message and the end
\* of its finally block
StreamInFlight(r) == req[r].pc \in {"headers", "stream", "finally"}

\* the assistant messages the request numbered seq could accumulate
Replies(seq) == {Msg("assistant", ReplyText(seq, k)) : k \in 0..MaxTokens}

\* no stored transcript holds a reply, whole or partial, of the request
NoReplyStored(seq) ==
    \A session_id \in DOMAIN store :
        Range(StoredTranscript(session_id)) \cap Replies(seq) = {}

\* the reply the finally block of the request in slot r appends
AccumulatedReply(r) ==
    Msg("assistant", ReplyText(req[r].seq, req[r].full_response))

FinaliseStep(r) == req[r].pc = "finally" /\ req'[r] # req[r]

StreamOrder(r) ==
    /\ (req[r].pc = "save_user" /\ req'[r].pc = "headers") =>
          /\ req'[r].conversation_snapshot
                = GetConversation(store', req[r].conversation_id).messages
          /\ req'[r].conversation_snapshot
                = TrimMessages(Append(req[r].conversation,
                                      Msg("user", UserText(req[r].seq))),
                               max_messages)
    /\ (req[r].pc \in {"headers", "stream"} /\ req'[r] # req[r]) =>
          /\ store' = store
          /\ req'[r].conversation_snapshot = req[r].conversation_snapshot
    /\ FinaliseStep(r) =>
          /\ req'[r].pc = "idle"
          /\ \/ store' = store
             \/ /\ req[r].full_response > 0
                /\ GetConversation(store', req[r].conversation_id).messages
                      = TrimMessages(Append(req[r].conversation_snapshot,
                                            AccumulatedReply(r)),
                                     max_messages)

\* C14: streaming finalisation order - the LLM is called with a copy of the
\* transcript taken right after the user message was saved; between that
\* save and the end of the token stream the request writes nothing to the
\* store (no stored transcript holds a prefix of the reply); the accumulated
\* reply is appended and saved at most once, by the finally block, after the
\* stream has ended.
C14_FinalisationOrder ==
    /\ [](\A r \in Slots : StreamInFlight(r) => NoReplyStored(req[r].seq))
    /\ [][\A r \in Slots : StreamOrder(r)]_vars

\* a reply of an earlier request is stored while this one has tokens unsaved
C14_Witness ==
    \E r \in Slots :
        /\ req[r].pc = "finally"
        /\ req[r].full_response > 0
        /\ NoReplyStored(req[r].seq)
        /\ req[r].conversation_id \in DOMAIN store
        /\ StoredTranscript(req[r].conversation_id) = req[r].conversation_snapshot
        /\ \E session_id \in DOMAIN store :
              StoredTranscript(session_id)[Len(StoredTranscript(session_id))].role
                 = "assistant"

\* C15 as claimed: after a disconnect with at least one token accumulated
\* the finally block persists an assistant message holding exactly the
\* partial text; after a backend failure before any token nothing is
\* persisted and the stored transcript stays as it was.
C15_DisconnectPersistsPartial ==
    [][\A r \in Slots :
          FinaliseStep(r) =>
             /\ (req[r].cause = "disconnect" /\ req[r].full_response > 0) =>
                   /\ req[r].conversation_id \in DOMAIN store'
                   /\ LET stored == GetConversation(store', req[r].conversation_id).messages
                      IN  /\ stored # <<>>
                          /\ stored[Len(stored)] = AccumulatedReply(r)
             /\ (req[r].cause = "error" /\ req[r].full_response = 0) =>
                   store' = store]_vars

\* C16 as claimed: when the token source raises after one or more tokens,
\* the stored transcript is left without the partial answer.
C16_NoPartialAfterFailure ==
    [][\A r \in Slots :
          (FinaliseStep(r) /\ req[r].cause = "error" /\ req[r].full_response > 0) =>
             \A session_id \in DOMAIN store' :
                 AccumulatedReply(r)
                    \notin Range(Loads(store'[session_id].conversation))]_vars

(***************************************************************************)
(* Properties of concurrent save_messages calls (SaveSpec).                *)
(***************************************************************************)
\* C20: updated_at advances monotonically - for every session id, across
\* any interleaving of save_messages calls on that id, the updated_at of the
\* record never decreases from one stored state to the next.
C20_UpdatedAtMonotonic ==
    [][\A session_id \in (DOMAIN store) \cap (DOMAIN store') :
          ~TextLess(store'[session_id].updated_at,
                    store[session_id].updated_at)]_vars

(***************************************************************************)
(* Properties of a run of successful /chat turns (TurnsSpec).              *)
(***************************************************************************)
\* a system message, then user and assistant messages in turn, the last one
\* an assistant message
StrictlyAlternating(msgs) ==
    /\ Len(msgs) % 2 = 1
    /\ msgs[1].role = "system"
    /\ \A i \in 2..Len(msgs) :
          msgs[i].role = IF i % 2 = 0 THEN "user" ELSE "assistant"

\* C25 as claimed: alternation is kept by completed turns - from no
\* session, after any number of sequential successful /chat turns with one
\* model, the stored transcript is the system message followed by strictly
\* alternating user and assistant messages ending on an assistant message,
\* and it holds the user and the assistant message of the latest turn.
C25_AlternationKept ==
    (nreq >= 1 /\ \A r \in Slots : req[r].pc = "idle") =>
        LET transcript == GetConversation(store, jar.conversation_id).messages
        IN  /\ StrictlyAlternating(transcript)
            /\ Msg("user", UserText(nreq)) \in Range(transcript)
            /\ Msg("assistant", ReplyText(nreq, 0)) \in Range(transcript)

====
